---- MODULE Spec2Model ----
(***************************************************************************)
(* kafkacat (src/kafkacat.c): the producer and the consumer control loops, *)
(* the send loop with its retry on queue congestion, the delivery report   *)
(* callback, the consume callback with the partition EOF bookkeeping, and  *)
(* the interrupt handler.  The broker client (librdkafka) is the           *)
(* environment: a bounded out queue, delivery reports served by poll, and  *)
(* a shared receive queue fed by the started partitions.                   *)
(***************************************************************************)
EXTENDS Integers, Sequences, FiniteSets, TLC

\* ------------------------------------------------------------------ bounds
\* Records the producer's input stream holds at most.
MaxRecs == 3
\* Files on the command line at most.
MaxFiles == 2
\* Largest -c <cnt> tried (0 = no limit).
MaxMsgCnt == 2
\* librdkafka's queue.buffering.max.messages: outstanding messages at most.
QueueMax == 1
\* Partitions of the consumed topic at most.
MaxParts == 2
\* Messages a partition holds at most (offsets 0..MaxOffset-1).
MaxOffset == 1
\* Events the shared receive queue holds at most.
MaxQueue == 2
\* stats.tx_err_q is only ever tested against zero; the model saturates it.
MaxQFull == 2
\* Bytes of an input stream framed byte by byte at most.
MaxInput == 4
\* Characters of a delimiter string (-D, -K) at most.
MaxSpecLen == 3

\* ------------------------------------------------------- program constants
\* len > 1024: the ownership-transfer threshold of producer_run.
CopyThreshold == 1024
\* RD_KAFKA_PARTITION_UA
PARTITION_UA == -1

VARIABLES
    pc,          \* the control position of the main thread
    exitstatus,  \* the status handed to exit(), -1 while the process runs
    conf,        \* struct conf: run, exitcode, flags, msg_cnt, mode
    stats,       \* struct stats: tx, tx_err_q, tx_err_dr, tx_delivered, rx
    pathcnt,     \* argc - optind
    files,       \* producer_run's file loop: i, good, and what each file
                 \* handed to produce_file so far turned out to be
    input,       \* the input stream: records read so far, at EOF, feof(fp),
                 \* and which of the records read were empty once trimmed
    rec,         \* producer_run's locals for the record at hand
    sbuf,        \* getdelim's buffer: "null", "alloc" (an allocation
                 \* producer_run owns) or "given" (the pointer still holds
                 \* the address of an allocation rdkafka owns)
    outq,        \* broker client: messages in flight, delivery reports queued
    sendlog,     \* history: the records handed to produce() and the records
                 \* rd_kafka_produce accepted, each in order
    meta,        \* metadata->topics[0].partition_cnt
    part_eof,    \* the partitions' at-EOF array, NullArray until allocated
    part_eof_cnt,   \* number of partitions that have reached EOF
    part_eof_thres, \* partitions at EOF before exiting
    cons,        \* broker client, consumer side: partitions started, stop
                 \* calls, the shared queue, offsets fetched and stored,
                 \* the offset of the last message consumed from each
                 \* partition
    framer,      \* the framing of a byte stream: the bytes still to read,
                 \* conf.delim, conf.key_delim, conf.flags, the record in
                 \* sbuf and the produce() calls made so far
    dparse,      \* argparse's delimiter strings and what parse_delim made
                 \* of them
    hist         \* history: interrupt seen, tee writes, the send under way
                 \* (run flag seen, last result, retried), failed deliveries,
                 \* messages rendered and stored, how often each branch of
                 \* consume_cb cleared conf.run, duplicate EOF seen,
                 \* offset-store called for a duplicate EOF, free() calls
                 \* of producer_run, a buffer used after rdkafka owned it

consVars == <<meta, part_eof, part_eof_cnt, part_eof_thres, cons>>

\* The state of the byte-level framing and of the delimiter parsing.
pureVars == <<framer, dparse>>

\* The state of a producer or consumer run.
runVars == <<pc, exitstatus, conf, stats, pathcnt, files, input, rec, sbuf,
             outq, sendlog, hist, consVars>>

vars == <<runVars, pureVars>>

\* ----------------------------------------------------------------- helpers
AllFlags == {"TEE", "KEY_DELIM", "NULL", "LINE"}

\* The lengths getdelim returns in the model: around 1 and around the
\* ownership threshold, the delimiter included when the record has one.
RecLens == {1, 2, CopyThreshold, CopyThreshold + 1, CopyThreshold + 2}

NoRec == [idx |-> 0, len |-> 0, orig_len |-> 0, buf |-> "null",
          key |-> "null", key_len |-> 0, msgflags |-> {}]

Running == exitstatus = -1

\* int *part_eof = NULL: no array
NullArray == [p \in {} |-> 0]

\* rd_kafka_outq_len
OutqLen == outq.inflight + Len(outq.dr)

Sat(n) == IF n < MaxQFull THEN n + 1 ELSE n

\* FATAL(): print and exit(1)
Fatal ==
    /\ pc' = "fatal"
    /\ exitstatus' = 1

\* No byte stream is framed and no delimiter string is parsed.
NoFramer == [pc |-> "off"]
NoDparse == [pc |-> "off"]

InitRun ==
    /\ pc = "main"
    /\ exitstatus = -1
    /\ \E c \in 0..MaxMsgCnt :
          \/ \E fl \in SUBSET AllFlags :
                conf = [run |-> 1, exitcode |-> 0, flags |-> fl,
                        msg_cnt |-> c, mode |-> "P",
                        partition |-> PARTITION_UA, exit_eof |-> 0]
          \/ \E part \in {PARTITION_UA} \cup 0..MaxParts, e \in {0, 1} :
                conf = [run |-> 1, exitcode |-> 0, flags |-> {},
                        msg_cnt |-> c, mode |-> "C",
                        partition |-> part, exit_eof |-> e]
    /\ stats = [tx |-> 0, tx_err_q |-> 0, tx_err_dr |-> 0,
                tx_delivered |-> 0, rx |-> 0]
    /\ pathcnt \in 0..MaxFiles
    /\ files = [i |-> 0, good |-> 0, seen |-> <<>>]
    /\ input = [nread |-> 0, eof |-> FALSE, feof |-> FALSE, zero |-> {}]
    /\ rec = NoRec
    /\ sbuf = "null"
    /\ outq = [inflight |-> 0, dr |-> <<>>]
    /\ sendlog = [submitted |-> <<>>, accepted |-> <<>>]
    /\ meta = [partition_cnt |-> 0]
    /\ part_eof = NullArray
    /\ part_eof_cnt = 0
    /\ part_eof_thres = 0
    /\ cons = [started |-> {}, stops |-> NullArray, rkq |-> <<>>,
               next |-> NullArray, stored |-> NullArray, batch |-> 0,
               last |-> NullArray]
    /\ hist = [termed |-> FALSE, tee |-> 0, chk |-> "none",
               lastres |-> "none", retrying |-> FALSE, brokerFails |-> 0,
               rendered |-> 0, msgStores |-> 0,
               eofStops |-> 0, cntStops |-> 0, dupEof |-> FALSE,
               dupStore |-> FALSE, freed |-> 0, stale |-> FALSE]

Init ==
    /\ InitRun
    /\ framer = NoFramer
    /\ dparse = NoDparse

\* ------------------------------------------------------------ interrupts
\* term(): the SIGINT/SIGTERM/SIGPIPE handler
term ==
    /\ Running
    /\ conf' = [conf EXCEPT !.run = 0]
    /\ hist' = [hist EXCEPT !.termed = TRUE]
    /\ UNCHANGED <<pc, exitstatus, stats, pathcnt, files, input, rec, sbuf,
                   outq, sendlog>>
    /\ UNCHANGED consVars
    /\ UNCHANGED pureVars

\* ------------------------------------------------------------ broker client
\* dr_msg_cb(): one delivery report
dr_msg_cb(st, err) ==
    IF err /= "ok"
    THEN [st EXCEPT !.tx_err_dr = st.tx_err_dr + 1]
    ELSE [st EXCEPT !.tx_delivered = st.tx_delivered + 1]

\* rd_kafka_poll(): serves every queued delivery report through dr_msg_cb
RECURSIVE ServeReports(_, _)
ServeReports(st, q) ==
    IF q = <<>> THEN st ELSE ServeReports(dr_msg_cb(st, Head(q)), Tail(q))

rd_kafka_poll ==
    /\ stats' = ServeReports(stats, outq.dr)
    /\ outq' = [outq EXCEPT !.dr = <<>>]

\* The broker client's background thread: a message in flight is delivered
\* or fails, and its report is queued for the next poll.
BrokerDeliver ==
    /\ Running
    /\ conf.mode = "P"
    /\ outq.inflight > 0
    /\ \E err \in {"ok", "fail"} :
          /\ outq' = [inflight |-> outq.inflight - 1,
                      dr |-> Append(outq.dr, err)]
          /\ hist' = [hist EXCEPT !.brokerFails =
                                    IF err = "fail" THEN @ + 1 ELSE @]
    /\ UNCHANGED <<pc, exitstatus, conf, stats, pathcnt, files, input, rec,
                   sbuf, sendlog>>
    /\ UNCHANGED consVars
    /\ UNCHANGED pureVars

\* rd_kafka_produce(): the immediate results the queue allows
ProduceResults ==
    IF OutqLen < QueueMax THEN {"ok", "other"} ELSE {"QUEUE_FULL", "other"}

\* ------------------------------------------------------------- produce()
FileMode == pathcnt > 0 /\ "LINE" \notin conf.flags

\* The run flag is not looked at before the send.
RunCheck_m(run) == "send"

\* produce(), line 128: if (!conf.run) FATAL
RunCheck(run) == IF run = 0 THEN "fatal" ELSE "send"

ProduceCheck ==
    /\ Running
    /\ pc = "produce_chk"
    /\ IF RunCheck(conf.run) = "fatal"
       THEN Fatal
       ELSE pc' = "produce_send" /\ UNCHANGED exitstatus
    /\ hist' = [hist EXCEPT !.chk = IF conf.run = 0 THEN "stop" ELSE "run"]
    /\ UNCHANGED <<conf, stats, pathcnt, files, input, rec, sbuf, outq,
                   sendlog>>
    /\ UNCHANGED consVars
    /\ UNCHANGED pureVars

\* Queue congestion taken for an error like any other.
OnSendError_fatal(err) == "fatal"

\* Every send error retried, not only queue congestion.
OnSendError_retry(err) == "retry"

\* produce(), lines 138-144: what an immediate send error leads to
OnSendError(err) == IF err /= "QUEUE_FULL" THEN "fatal" ELSE "retry"

\* produce(), lines 132-149: one rd_kafka_produce attempt
ProduceSend ==
    /\ Running
    /\ pc = "produce_send"
    /\ \E res \in ProduceResults :
          \/ /\ res = "ok"
             /\ stats' = [stats EXCEPT !.tx = stats.tx + 1]
             /\ outq' = [outq EXCEPT !.inflight = outq.inflight + 1]
             /\ sendlog' = [sendlog EXCEPT !.accepted = Append(@, rec.idx)]
             /\ hist' = [hist EXCEPT !.lastres = res]
             /\ sbuf' = IF "FREE" \in rec.msgflags THEN "given" ELSE sbuf
             /\ pc' = "produce_poll0"
             /\ UNCHANGED exitstatus
          \/ /\ res /= "ok"
             /\ OnSendError(res) = "fatal"
             /\ Fatal
             /\ hist' = [hist EXCEPT !.lastres = res]
             /\ UNCHANGED <<stats, outq, sendlog, sbuf>>
          \/ /\ res /= "ok"
             /\ OnSendError(res) = "retry"
             /\ stats' = [stats EXCEPT !.tx_err_q = Sat(stats.tx_err_q)]
             /\ hist' = [hist EXCEPT !.retrying = TRUE, !.lastres = res]
             /\ pc' = "produce_poll5"
             /\ UNCHANGED <<exitstatus, outq, sendlog, sbuf>>
    /\ UNCHANGED <<conf, pathcnt, files, input, rec>>
    /\ UNCHANGED consVars
    /\ UNCHANGED pureVars

\* The loop left after the poll: the congested record is given up.
ProduceRetryPoll_m ==
    /\ Running
    /\ pc = "produce_poll5"
    /\ rd_kafka_poll
    /\ pc' = "produce_poll0"
    /\ UNCHANGED <<exitstatus, conf, pathcnt, files, input, rec, sbuf,
                   sendlog, hist>>
    /\ UNCHANGED consVars
    /\ UNCHANGED pureVars

\* produce(), line 149: rd_kafka_poll(conf.rk, 5), then the loop again
ProduceRetryPoll ==
    /\ Running
    /\ pc = "produce_poll5"
    /\ rd_kafka_poll
    /\ pc' = "produce_chk"
    /\ UNCHANGED <<exitstatus, conf, pathcnt, files, input, rec, sbuf,
                   sendlog, hist>>
    /\ UNCHANGED consVars
    /\ UNCHANGED pureVars

\* produce(), line 153: rd_kafka_poll(conf.rk, 0), then return
ProduceReturn ==
    /\ Running
    /\ pc = "produce_poll0"
    /\ rd_kafka_poll
    /\ pc' = IF FileMode THEN "file_ret" ELSE "post"
    /\ UNCHANGED <<exitstatus, conf, pathcnt, files, input, rec, sbuf,
                   sendlog, hist>>
    /\ UNCHANGED consVars
    /\ UNCHANGED pureVars

\* --------------------------------------------------------- produce_file()
FileKinds == {"ok", "empty", "open_fail", "stat_fail", "mmap_fail"}

\* st.st_size of a readable, non-empty file
FileSizes == {1, CopyThreshold + 1}

\* produce_file()'s return value: -1 on failure, else the file length
produce_file_ret(kind, size) ==
    CASE kind = "empty" -> 0
      [] kind = "ok" -> size
      [] OTHER -> -1

\* Only a file that was sent counts: an empty file counts as a failure.
CountGood_m(good, ret) == IF ret > 0 THEN good + 1 ELSE good

\* producer_run, lines 237-239: if (produce_file(paths[i]) != -1) good++
CountGood(good, ret) == IF ret /= -1 THEN good + 1 ELSE good

\* The file loop's verdict never set.
FilesExitcode_m(code, good, cnt) == code

\* producer_run, lines 241-245: the file loop's verdict
FilesExitcode(code, good, cnt) == IF good = 0 THEN 1 ELSE code

\* producer_run, lines 237-245, with produce_file() up to its produce() call
ProduceFiles ==
    /\ Running
    /\ pc = "files"
    /\ \/ /\ files.i < pathcnt
          /\ \E kind \in FileKinds \ {"ok"} :
                files' = [i |-> files.i + 1,
                          good |-> CountGood(files.good,
                                             produce_file_ret(kind, 0)),
                          seen |-> Append(files.seen, kind)]
          /\ UNCHANGED <<pc, conf, rec, sendlog>>
       \/ /\ files.i < pathcnt
          /\ \E size \in FileSizes :
                rec' = [idx |-> files.i + 1, len |-> size, orig_len |-> size,
                        buf |-> "mmap", key |-> "null", key_len |-> 0,
                        msgflags |-> {"COPY"}]
          /\ sendlog' = [sendlog EXCEPT !.submitted = Append(@, files.i + 1)]
          /\ files' = [files EXCEPT !.seen = Append(@, "ok")]
          /\ pc' = "produce_chk"
          /\ UNCHANGED conf
       \/ /\ files.i >= pathcnt
          /\ conf' = [conf EXCEPT !.exitcode =
                         FilesExitcode(conf.exitcode, files.good, pathcnt)]
          /\ pc' = "wait"
          /\ UNCHANGED <<files, rec, sendlog>>
    /\ UNCHANGED <<exitstatus, stats, pathcnt, input, sbuf, outq, hist>>
    /\ UNCHANGED consVars
    /\ UNCHANGED pureVars

\* produce_file(), lines 194-195, and the loop's good++ for this file
ProduceFileReturn ==
    /\ Running
    /\ pc = "file_ret"
    /\ files' = [files EXCEPT
                   !.i = @ + 1,
                   !.good = CountGood(@, produce_file_ret("ok", rec.len))]
    /\ rec' = NoRec
    /\ hist' = [hist EXCEPT !.retrying = FALSE, !.chk = "none",
                            !.lastres = "none"]
    /\ pc' = "files"
    /\ UNCHANGED <<exitstatus, conf, stats, pathcnt, input, sbuf, outq,
                   sendlog>>
    /\ UNCHANGED consVars
    /\ UNCHANGED pureVars

\* ------------------------------------------------- producer_run, framing
\* The last byte dropped whether or not it is the delimiter.
Shave_always(len, lastIsDelim) == len - 1

\* lines 260-262: shave off the delimiter
Shave(len, lastIsDelim) == IF lastIsDelim THEN len - 1 ELSE len

\* The key split without line 281: the copy flag is not forced.
ExtractKey_nocopy(r, kpos, flags) ==
    IF "KEY_DELIM" \in flags /\ kpos > 0
    THEN LET kl == kpos - 1
             l  == r.len - (kl + 1)
         IN [r EXCEPT !.key_len = kl,
                      !.key = IF "NULL" \in flags /\ kl = 0
                              THEN "null" ELSE "sbuf",
                      !.len = l,
                      !.buf = IF "NULL" \in flags /\ l = 0
                              THEN "null" ELSE "interior"]
    ELSE r

\* The key split without lines 283-288: empty halves are never made NULL.
ExtractKey_nonull(r, kpos, flags) ==
    IF "KEY_DELIM" \in flags /\ kpos > 0
    THEN LET kl == kpos - 1
             l  == r.len - (kl + 1)
         IN [r EXCEPT !.key_len = kl,
                      !.key = "sbuf",
                      !.len = l,
                      !.buf = "interior",
                      !.msgflags = {"COPY"}]
    ELSE r

\* lines 267-290: extract the key, if desired and found.  kpos is the
\* 1-based place of the first key delimiter in the record, 0 when absent.
ExtractKey(r, kpos, flags) ==
    IF "KEY_DELIM" \in flags /\ kpos > 0
    THEN LET kl == kpos - 1
             l  == r.len - (kl + 1)
         IN [r EXCEPT !.key_len = kl,
                      !.key = IF "NULL" \in flags /\ kl = 0
                              THEN "null" ELSE "sbuf",
                      !.len = l,
                      !.buf = IF "NULL" \in flags /\ l = 0
                              THEN "null" ELSE "interior",
                      !.msgflags = {"COPY"}]
    ELSE r

\* The threshold one byte late: a record of 1025 bytes still copied.
OwnershipFlags_late(msgflags, len, flags) ==
    IF "COPY" \notin msgflags /\ len > CopyThreshold + 1 /\ "TEE" \notin flags
    THEN msgflags \cup {"FREE"}
    ELSE msgflags \cup {"COPY"}

\* The threshold compared with >= : a record of 1024 bytes handed over.
OwnershipFlags_m(msgflags, len, flags) ==
    IF "COPY" \notin msgflags /\ len >= CopyThreshold /\ "TEE" \notin flags
    THEN msgflags \cup {"FREE"}
    ELSE msgflags \cup {"COPY"}

\* lines 292-307: copy, or let rdkafka own the buffer
OwnershipFlags(msgflags, len, flags) ==
    IF "COPY" \notin msgflags /\ len > CopyThreshold /\ "TEE" \notin flags
    THEN msgflags \cup {"FREE"}
    ELSE msgflags \cup {"COPY"}

\* The framing without lines 264-265: a record empty after the shave is
\* sent like any other.
Frame_noskip(idx, n, lastIsDelim, kpos, flags) ==
    IF n = 0
    THEN NoRec
    ELSE LET r0 == [idx |-> idx, len |-> Shave(n, lastIsDelim),
                    orig_len |-> n, buf |-> "sbuf", key |-> "null",
                    key_len |-> 0, msgflags |-> {}]
             r1 == ExtractKey(r0, kpos, flags)
         IN [r1 EXCEPT !.msgflags = OwnershipFlags(r1.msgflags, r1.len, flags)]

\* lines 251-307: the record handed to produce(), NoRec when it is skipped
Frame(idx, n, lastIsDelim, kpos, flags) ==
    IF n = 0 \/ Shave(n, lastIsDelim) = 0
    THEN NoRec
    ELSE LET r0 == [idx |-> idx, len |-> Shave(n, lastIsDelim),
                    orig_len |-> n, buf |-> "sbuf", key |-> "null",
                    key_len |-> 0, msgflags |-> {}]
             r1 == ExtractKey(r0, kpos, flags)
         IN [r1 EXCEPT !.msgflags = OwnershipFlags(r1.msgflags, r1.len, flags)]

\* The places the first key delimiter can have in a record of len bytes.
KeyPlaces(len, flags) ==
    IF "KEY_DELIM" \in flags
    THEN {0} \cup {k \in {1, 2, len} : 1 <= k /\ k <= len}
    ELSE {0}

\* line 250, getdelim(&sbuf, &size, ...): the buffer it reads into. A NULL
\* sbuf is replaced by a fresh allocation (always when a record is
\* returned; when nothing is read the C library may leave it NULL),
\* otherwise the allocation sbuf points to is used again.
getdelim_buf(alloc) ==
    /\ sbuf' = IF sbuf = "null" /\ alloc THEN "alloc" ELSE sbuf
    /\ hist' = [hist EXCEPT !.stale = @ \/ sbuf = "given"]

\* lines 249-310: the loop condition, getdelim and the framing of one record
ReadRecord ==
    /\ Running
    /\ pc = "read"
    /\ \/ /\ conf.run = 0
          /\ pc' = "after_loop"
          /\ UNCHANGED <<input, rec, sbuf, sendlog, hist>>
       \/ /\ conf.run /= 0
          /\ \E fe \in (IF input.eof THEN {TRUE} ELSE BOOLEAN) :
                input' = [input EXCEPT !.eof = TRUE, !.feof = fe]
          /\ pc' = "after_loop"
          /\ \E alloc \in BOOLEAN : getdelim_buf(alloc)
          /\ UNCHANGED <<rec, sendlog>>
       \/ /\ conf.run /= 0
          /\ ~input.eof
          /\ input.nread < MaxRecs
          /\ \E n \in RecLens, last \in BOOLEAN :
               \E kpos \in KeyPlaces(Shave(n, last), conf.flags) :
                 /\ input' = [input EXCEPT
                                !.nread = input.nread + 1,
                                !.eof = ~last,
                                !.zero = IF Shave(n, last) = 0
                                         THEN @ \cup {input.nread + 1}
                                         ELSE @]
                 /\ rec' = Frame(input.nread + 1, n, last, kpos, conf.flags)
                 /\ pc' = IF rec' = NoRec THEN "read" ELSE "produce_chk"
                 /\ sendlog' = IF rec' = NoRec THEN sendlog
                                ELSE [sendlog EXCEPT !.submitted =
                                        Append(@, input.nread + 1)]
          /\ getdelim_buf(TRUE)
    /\ UNCHANGED <<exitstatus, conf, stats, pathcnt, files, outq>>
    /\ UNCHANGED consVars
    /\ UNCHANGED pureVars

\* line 325: enforce -c <cnt>
CntReached(tx, msg_cnt) == tx = msg_cnt

\* The pointer kept after the buffer was handed over.
SbufAfterSend_keep(buf, msgflags) == buf

\* lines 317-322: rdkafka owns a buffer sent with F_FREE, sbuf = NULL
SbufAfterSend(buf, msgflags) == IF "FREE" \in msgflags THEN "null" ELSE buf

\* lines 312-326: tee, the buffer handed over, the message count
PostProduce ==
    /\ Running
    /\ pc = "post"
    /\ \/ /\ "TEE" \in conf.flags
          /\ Fatal
          /\ UNCHANGED <<conf, sbuf, hist, rec>>
       \/ /\ hist' = [hist EXCEPT !.tee = IF "TEE" \in conf.flags
                                          THEN hist.tee + 1 ELSE hist.tee,
                                  !.retrying = FALSE, !.chk = "none",
                                  !.lastres = "none",
                                  !.stale = @ \/ (/\ "TEE" \in conf.flags
                                                  /\ sbuf = "given")]
          /\ sbuf' = SbufAfterSend(sbuf, rec.msgflags)
          /\ conf' = IF CntReached(stats.tx, conf.msg_cnt)
                     THEN [conf EXCEPT !.run = 0] ELSE conf
          /\ rec' = NoRec
          /\ pc' = "read"
          /\ UNCHANGED exitstatus
    /\ UNCHANGED <<stats, pathcnt, files, input, outq, sendlog>>
    /\ UNCHANGED consVars
    /\ UNCHANGED pureVars

\* lines 329-333: a read that failed without end of file is fatal
AfterLoop ==
    /\ Running
    /\ pc = "after_loop"
    /\ IF conf.run /= 0 /\ ~input.feof
       THEN Fatal
       ELSE pc' = "wait" /\ UNCHANGED exitstatus
    /\ UNCHANGED <<conf, stats, pathcnt, files, input, rec, sbuf, outq,
                   sendlog, hist>>
    /\ UNCHANGED consVars
    /\ UNCHANGED pureVars

\* lines 336-337: conf.run = 1 before the wait for outstanding messages
WaitInit ==
    /\ Running
    /\ pc = "wait"
    /\ conf' = [conf EXCEPT !.run = 1]
    /\ pc' = "waitloop"
    /\ UNCHANGED <<exitstatus, stats, pathcnt, files, input, rec, sbuf, outq,
                   sendlog, hist>>
    /\ UNCHANGED consVars
    /\ UNCHANGED pureVars

\* lines 338-339: while (conf.run && rd_kafka_outq_len) rd_kafka_poll(50)
WaitLoop ==
    /\ Running
    /\ pc = "waitloop"
    /\ IF conf.run /= 0 /\ OutqLen > 0
       THEN rd_kafka_poll /\ UNCHANGED pc
       ELSE pc' = "finish" /\ UNCHANGED <<stats, outq>>
    /\ UNCHANGED <<exitstatus, conf, pathcnt, files, input, rec, sbuf,
                   sendlog, hist>>
    /\ UNCHANGED consVars
    /\ UNCHANGED pureVars

\* Failed deliveries left out of the exit code.
ProducerExitcode_m(code, st) ==
    IF st.tx_err_q /= 0 THEN 1 ELSE code

\* lines 347-348: queue-full retries and failed deliveries set the exit code
ProducerExitcode(code, st) ==
    IF st.tx_err_q /= 0 \/ st.tx_err_dr /= 0 THEN 1 ELSE code

\* lines 341-348, then main's exit(conf.exitcode)
ProducerFinish ==
    /\ Running
    /\ pc = "finish"
    /\ hist' = IF sbuf /= "null"
               THEN [hist EXCEPT !.freed = @ + 1,
                                 !.stale = @ \/ sbuf = "given"]
               ELSE hist
    /\ conf' = [conf EXCEPT !.exitcode = ProducerExitcode(conf.exitcode, stats)]
    /\ exitstatus' = conf'.exitcode
    /\ pc' = "exit"
    /\ UNCHANGED <<stats, pathcnt, files, input, rec, sbuf, outq, sendlog>>
    /\ UNCHANGED consVars
    /\ UNCHANGED pureVars

\* ---------------------------------------------------------- consume_cb()
Parts == 0..(meta.partition_cnt - 1)

\* The marker's own offset stored: one past the last message.
EofOffset_m(o) == o

\* lines 367-370: the offset stored at an end-of-partition marker
EofOffset(o) == IF o = 0 THEN 0 ELSE o - 1

\* The threshold test one short: the loop outlives the last partition.
ThresReached_m(cnt, thres) == cnt > thres

\* line 378: enough partitions at EOF
ThresReached(cnt, thres) == cnt >= thres

\* The count test one late: a message too many is consumed.
RxLimit_m(rx, msg_cnt) == rx = msg_cnt + 1

\* line 405: if (++stats.rx == conf.msg_cnt)
RxLimit(rx, msg_cnt) == rx = msg_cnt

\* The flag test missing: every marker counts as a first one.
FirstEof_m(flag) == TRUE

\* line 372: the marker is the partition's first
FirstEof(flag) == flag = 0

\* The early return missing: events are handled with the run flag cleared.
CbReturns_never(run) == FALSE

\* lines 359-360: if (!conf.run) return
CbReturns(run) == run = 0

\* The store moved into the transition: only a first marker stores.
StoresAtEof_m(first) == first

\* lines 367-370 precede the tests of lines 371-372: every marker stores
StoresAtEof(first) == TRUE

\* Every error taken for an end-of-partition marker.
IsEof_any(type) == TRUE

\* line 363: rkmessage->err == RD_KAFKA_RESP_ERR__PARTITION_EOF
IsEof(type) == type = "eof"

\* consume_cb(), lines 356-407, for the message m = [type, partition, offset]
consume_cb(m) ==
    \/ /\ CbReturns(conf.run)
       /\ UNCHANGED <<pc, exitstatus, conf, stats, part_eof, part_eof_cnt,
                      hist>>
       /\ cons' = [cons EXCEPT !.rkq = Tail(@), !.batch = @ - 1]
    \/ /\ ~CbReturns(conf.run)
       /\ m.type /= "msg"
       /\ IsEof(m.type)
       /\ LET first == conf.exit_eof /= 0 /\ FirstEof(part_eof[m.partition])
              cnt   == IF first THEN part_eof_cnt + 1 ELSE part_eof_cnt
              stop  == first /\ ThresReached(cnt, part_eof_thres)
          IN /\ cons' = [cons EXCEPT
                           !.rkq = Tail(@), !.batch = @ - 1,
                           !.stored[m.partition] =
                               IF StoresAtEof(first)
                               THEN EofOffset(m.offset) ELSE @,
                           !.stops[m.partition] = IF first THEN @ + 1 ELSE @]
             /\ part_eof' = IF first
                            THEN [part_eof EXCEPT ![m.partition] = 1]
                            ELSE part_eof
             /\ part_eof_cnt' = cnt
             /\ conf' = IF stop THEN [conf EXCEPT !.run = 0] ELSE conf
             /\ hist' = [hist EXCEPT
                           !.eofStops = IF stop THEN @ + 1 ELSE @,
                           !.dupEof = @ \/ (conf.exit_eof /= 0 /\ ~first),
                           !.dupStore = @ \/ (/\ conf.exit_eof /= 0
                                              /\ ~first
                                              /\ StoresAtEof(first))]
       /\ UNCHANGED <<pc, exitstatus, stats>>
    \/ /\ ~CbReturns(conf.run)
       /\ m.type /= "msg"
       /\ ~IsEof(m.type)
       /\ Fatal
       /\ cons' = [cons EXCEPT !.rkq = Tail(@), !.batch = @ - 1]
       /\ UNCHANGED <<conf, stats, part_eof, part_eof_cnt, hist>>
    \/ /\ ~CbReturns(conf.run)
       /\ m.type = "msg"
       /\ stats' = [stats EXCEPT !.rx = @ + 1]
       /\ cons' = [cons EXCEPT !.rkq = Tail(@), !.batch = @ - 1,
                               !.stored[m.partition] = m.offset,
                               !.last[m.partition] = m.offset]
       /\ LET stop == RxLimit(stats'.rx, conf.msg_cnt)
          IN /\ conf' = IF stop THEN [conf EXCEPT !.run = 0] ELSE conf
             /\ hist' = [hist EXCEPT !.cntStops = IF stop THEN @ + 1 ELSE @,
                                     !.rendered = @ + 1,
                                     !.msgStores = @ + 1]
       /\ UNCHANGED <<pc, exitstatus, part_eof, part_eof_cnt>>

\* --------------------------------------------------------- consumer_run()
\* The requested partition ignored: the threshold is the partition count.
EofThreshold_m(partition, cnt) == cnt

\* lines 472-475: the threshold level
EofThreshold(partition, cnt) == IF partition /= PARTITION_UA THEN 1 ELSE cnt

\* lines 483-501: the partitions that are started
Wanted(partition, cnt) ==
    IF partition = PARTITION_UA THEN 0..(cnt - 1)
    ELSE {partition} \cap 0..(cnt - 1)

\* lines 448-476: the metadata query and the EOF state array
ConsumerSetup ==
    /\ Running
    /\ pc = "c_setup"
    /\ \E n \in 0..MaxParts :
          IF n = 0
          THEN /\ Fatal
               /\ UNCHANGED <<meta, part_eof, part_eof_thres>>
          ELSE /\ meta' = [partition_cnt |-> n]
               /\ part_eof' = IF conf.exit_eof /= 0
                              THEN [p \in 0..(n - 1) |-> 0] ELSE NullArray
               /\ part_eof_thres' = IF conf.exit_eof /= 0
                                    THEN EofThreshold(conf.partition, n)
                                    ELSE part_eof_thres
               /\ pc' = "c_start"
               /\ UNCHANGED exitstatus
    /\ UNCHANGED <<conf, stats, pathcnt, files, input, rec, sbuf, outq,
                   sendlog, hist, part_eof_cnt, cons>>
    /\ UNCHANGED pureVars

\* lines 478-509: start consuming from all wanted partitions
ConsumerStart ==
    /\ Running
    /\ pc = "c_start"
    /\ \/ /\ Fatal
          /\ UNCHANGED cons
       \/ /\ Wanted(conf.partition, meta.partition_cnt) /= {}
          /\ cons' = [started |-> Wanted(conf.partition, meta.partition_cnt),
                      stops |-> [p \in Parts |-> 0],
                      rkq |-> <<>>,
                      next |-> [p \in Parts |-> 0],
                      stored |-> [p \in Parts |-> -1],
                      batch |-> 0,
                      last |-> [p \in Parts |-> -1]]
          /\ pc' = "c_loop"
          /\ UNCHANGED exitstatus
    /\ UNCHANGED <<conf, stats, pathcnt, files, input, rec, sbuf, outq,
                   sendlog, hist, meta, part_eof, part_eof_cnt,
                   part_eof_thres>>
    /\ UNCHANGED pureVars

\* The broker client's fetcher: a started partition that was not stopped
\* puts a message, an end-of-partition marker or an error on the queue.
BrokerFetch ==
    /\ Running
    /\ pc \in {"c_loop", "c_batch"}
    /\ Len(cons.rkq) < MaxQueue
    /\ \E p \in cons.started :
          /\ cons.stops[p] = 0
          /\ \/ /\ cons.next[p] < MaxOffset
                /\ cons' = [cons EXCEPT
                              !.rkq = Append(@, [type |-> "msg",
                                                 partition |-> p,
                                                 offset |-> cons.next[p]]),
                              !.next[p] = @ + 1]
             \/ \E t \in {"eof", "err"} :
                   cons' = [cons EXCEPT
                              !.rkq = Append(@, [type |-> t, partition |-> p,
                                                 offset |-> cons.next[p]])]
    /\ UNCHANGED <<pc, exitstatus, conf, stats, pathcnt, files, input, rec,
                   sbuf, outq, sendlog, hist, meta, part_eof, part_eof_cnt,
                   part_eof_thres>>
    /\ UNCHANGED pureVars

\* lines 513-514: while (conf.run) rd_kafka_consume_callback_queue(...)
ConsumeLoop ==
    /\ Running
    /\ pc = "c_loop"
    /\ IF conf.run /= 0
       THEN pc' = "c_batch" /\ cons' = [cons EXCEPT !.batch = Len(cons.rkq)]
       ELSE pc' = "c_stop" /\ UNCHANGED cons
    /\ UNCHANGED <<exitstatus, conf, stats, pathcnt, files, input, rec, sbuf,
                   outq, sendlog, hist, meta, part_eof, part_eof_cnt,
                   part_eof_thres>>
    /\ UNCHANGED pureVars

\* lines 514-518: the callback for each message of the batch, then the poll
ConsumeCallback ==
    /\ Running
    /\ pc = "c_batch"
    /\ IF cons.batch > 0
       THEN consume_cb(Head(cons.rkq))
       ELSE /\ pc' = "c_loop"
            /\ UNCHANGED <<exitstatus, conf, stats, part_eof, part_eof_cnt,
                           cons, hist>>
    /\ UNCHANGED <<pathcnt, files, input, rec, sbuf, outq, sendlog, meta,
                   part_eof_thres>>
    /\ UNCHANGED pureVars

\* lines 531-534: the stop calls the shutdown loop makes for one partition
ShutdownStops(eof, p) ==
    (IF eof = NullArray \/ eof[p] = 0 THEN 1 ELSE 0) + 1

\* lines 521-538: stop consuming, destroy the shared queue
ConsumerStop ==
    /\ Running
    /\ pc = "c_stop"
    /\ \E k \in {0, 1} :
          outq' = [inflight |-> k, dr |-> <<>>]
    /\ cons' = [cons EXCEPT
                  !.stops = [p \in Parts |->
                               IF p \in Wanted(conf.partition,
                                               meta.partition_cnt)
                               THEN cons.stops[p] + ShutdownStops(part_eof, p)
                               ELSE cons.stops[p]],
                  !.rkq = <<>>, !.batch = 0]
    /\ pc' = "c_wait"
    /\ UNCHANGED <<exitstatus, conf, stats, pathcnt, files, input, rec, sbuf,
                   sendlog, hist, meta, part_eof, part_eof_cnt,
                   part_eof_thres>>
    /\ UNCHANGED pureVars

\* The broker answers an outstanding request of the consumer.
BrokerReply ==
    /\ Running
    /\ conf.mode = "C"
    /\ outq.inflight > 0
    /\ outq' = [outq EXCEPT !.inflight = @ - 1]
    /\ UNCHANGED <<pc, exitstatus, conf, stats, pathcnt, files, input, rec,
                   sbuf, sendlog, hist, consVars>>
    /\ UNCHANGED pureVars

\* lines 540-541: conf.run = 1 before the wait for outstanding requests
ConsumerWaitInit ==
    /\ Running
    /\ pc = "c_wait"
    /\ conf' = [conf EXCEPT !.run = 1]
    /\ pc' = "c_waitloop"
    /\ UNCHANGED <<exitstatus, stats, pathcnt, files, input, rec, sbuf, outq,
                   sendlog, hist, consVars>>
    /\ UNCHANGED pureVars

\* lines 542-543: while (conf.run && rd_kafka_outq_len > 0) rd_kafka_poll(50)
ConsumerWaitLoop ==
    /\ Running
    /\ pc = "c_waitloop"
    /\ IF conf.run /= 0 /\ OutqLen > 0
       THEN UNCHANGED pc
       ELSE pc' = "c_finish"
    /\ UNCHANGED <<exitstatus, conf, stats, pathcnt, files, input, rec, sbuf,
                   outq, sendlog, hist, consVars>>
    /\ UNCHANGED pureVars

\* lines 545-546, then main's exit(conf.exitcode)
ConsumerFinish ==
    /\ Running
    /\ pc = "c_finish"
    /\ exitstatus' = conf.exitcode
    /\ pc' = "exit"
    /\ UNCHANGED <<conf, stats, pathcnt, files, input, rec, sbuf, outq,
                   sendlog, hist, consVars>>
    /\ UNCHANGED pureVars

\* ------------------------------------------------------------------ main()
\* lines 1093-1116: the file list is checked, then the mode is run
Main ==
    /\ Running
    /\ pc = "main"
    /\ IF /\ pathcnt > 0
          /\ \/ conf.mode /= "P"
             \/ ("LINE" \in conf.flags /\ pathcnt > 1)
       THEN Fatal
       ELSE /\ pc' = IF conf.mode = "C" THEN "c_setup"
                     ELSE IF FileMode THEN "files" ELSE "read"
            /\ UNCHANGED exitstatus
    /\ UNCHANGED <<conf, stats, pathcnt, files, input, rec, sbuf, outq,
                   sendlog, hist, consVars>>
    /\ UNCHANGED pureVars

NextP ==
    \/ BrokerDeliver
    \/ ProduceFiles
    \/ ProduceFileReturn
    \/ ReadRecord
    \/ ProduceCheck
    \/ ProduceSend
    \/ ProduceRetryPoll
    \/ ProduceReturn
    \/ PostProduce
    \/ AfterLoop
    \/ WaitInit
    \/ WaitLoop
    \/ ProducerFinish

NextC ==
    \/ ConsumerSetup
    \/ ConsumerStart
    \/ BrokerFetch
    \/ ConsumeLoop
    \/ ConsumeCallback
    \/ ConsumerStop
    \/ BrokerReply
    \/ ConsumerWaitInit
    \/ ConsumerWaitLoop
    \/ ConsumerFinish

Next == term \/ Main \/ NextP \/ NextC

Spec == Init /\ [][Next]_vars

\* A producer run only.
InitP == Init /\ conf.mode = "P"
SpecP == InitP /\ [][term \/ Main \/ NextP]_vars

\* The producer's main thread.
ProgramP ==
    \/ Main
    \/ ProduceFiles
    \/ ProduceFileReturn
    \/ ReadRecord
    \/ ProduceCheck
    \/ ProduceSend
    \/ ProduceRetryPoll
    \/ ProduceReturn
    \/ PostProduce
    \/ AfterLoop
    \/ WaitInit
    \/ WaitLoop
    \/ ProducerFinish

\* A producer run without tee, key delimiter and null encoding (the send
\* loop reads none of them), whose main thread keeps running and whose
\* broker client reports every message in flight, delivered or timed out.
InitPFair == InitP /\ conf.flags \subseteq {"LINE"}
SpecPFair ==
    /\ InitPFair
    /\ [][term \/ Main \/ NextP]_vars
    /\ WF_vars(ProgramP)
    /\ WF_vars(BrokerDeliver)

\* A consumer run only.
InitC == Init /\ conf.mode = "C"
SpecC == InitC /\ [][term \/ Main \/ NextC]_vars

\* The consumer's main thread.
ProgramC ==
    \/ Main
    \/ ConsumerSetup
    \/ ConsumerStart
    \/ ConsumeLoop
    \/ ConsumeCallback
    \/ ConsumerStop
    \/ ConsumerWaitInit
    \/ ConsumerWaitLoop
    \/ ConsumerFinish

\* A consumer run of one requested partition (consume_cb and the receive
\* loop treat the events of every partition alike once the run flag is
\* cleared) whose main thread keeps running: the queue is served with a
\* timeout of 100 ms (line 514), so no call of the loop blocks for ever.
InitCFair == InitC /\ conf.partition /= PARTITION_UA
SpecCFair ==
    /\ InitCFair
    /\ [][term \/ Main \/ NextC]_vars
    /\ WF_vars(ProgramC)

\* ------------------------------------------- producer_run, byte by byte
\* The bytes of an input stream: '\n', ':', 0x7F, 0x80 and 0xFF.
StreamBytes == {10, 58, 127, 128, 255}

\* The record delimiters (-D) and the key delimiters (-K) tried.
DelimBytes == {10, 127, 128, 255}
KeyDelimBytes == {58, 255}

\* All byte streams of at most n bytes.
RECURSIVE Streams(_)
Streams(n) ==
    IF n = 0 THEN {<<>>}
    ELSE LET shorter == Streams(n - 1)
         IN shorter \cup {Append(q, b) : q \in {t \in shorter : Len(t) = n - 1},
                                         b \in StreamBytes}

\* line 261, (int)buf[len-1]: a byte read through a char.  Whether char is
\* signed is the build's choice.
CharToInt(b, char_signed) == IF char_signed /\ b >= 128 THEN b - 256 ELSE b

\* The smallest member of a non-empty set of numbers.
Lowest(S) == CHOOSE i \in S : \A j \in S : i <= j

\* The largest member of a non-empty set of numbers.
Highest(S) == CHOOSE i \in S : \A j \in S : i >= j

\* line 250, getdelim: the bytes up to and including the next delimiter,
\* or all that is left before end of file.
getdelim(in, delim) ==
    LET hits == {i \in 1..Len(in) : in[i] = delim}
    IN IF hits = {} THEN in ELSE SubSeq(in, 1, Lowest(hits))

\* The last occurrence looked for instead of the first.
memchr_last(buf, c, len) ==
    LET hits == {i \in 1..len : buf[i] = c}
    IN IF hits = {} THEN 0 ELSE Highest(hits)

\* line 270, memchr: the 1-based place of the first c in buf[0..len), 0 for
\* NULL.
memchr(buf, c, len) ==
    LET hits == {i \in 1..len : buf[i] = c}
    IN IF hits = {} THEN 0 ELSE Lowest(hits)

\* A pointer argument of produce(): NULL, or the bytes it points at.
NullPtr == [null |-> TRUE, bytes |-> <<>>]
Ptr(bytes) == [null |-> FALSE, bytes |-> bytes]

\* lines 252, 273, 285: the bytes buf points at when produce() is called
BufArg(r, bytes) ==
    CASE r.buf = "null" -> NullPtr
      [] r.buf = "interior" ->
            Ptr(SubSeq(bytes, r.key_len + 2, r.key_len + 1 + r.len))
      [] OTHER -> Ptr(SubSeq(bytes, 1, r.len))

\* lines 253, 272, 287: the bytes key points at when produce() is called
KeyArg(r, bytes) ==
    IF r.key = "null" THEN NullPtr ELSE Ptr(SubSeq(bytes, 1, r.key_len))

\* lines 251-310 for the record getdelim left in sbuf: the framed record,
\* NoRec when it is skipped.
FrameBytes(idx, bytes, delim, key_delim, flags, char_signed) ==
    LET n     == Len(bytes)
        match == CharToInt(bytes[n], char_signed) = delim
    IN Frame(idx, n, match, memchr(bytes, key_delim, Shave(n, match)), flags)

\* line 310: the arguments of the produce() call, with the record as read
\* (sbuf, orig_len), the length left by line 262 and memchr's result.
ProduceCall(r, bytes, delim, key_delim, char_signed) ==
    LET n     == Len(bytes)
        match == CharToInt(bytes[n], char_signed) = delim
    IN [buf |-> BufArg(r, bytes), len |-> r.len,
        key |-> KeyArg(r, bytes), key_len |-> r.key_len,
        msgflags |-> r.msgflags,
        sbuf |-> bytes, orig_len |-> r.orig_len,
        shaved_len |-> Shave(n, match),
        t |-> memchr(bytes, key_delim, Shave(n, match))]

\* The framing options: conf.flags, conf.delim, conf.key_delim (0 unless -K
\* was given) and the signedness of char.
FramerConfs ==
    {[flags |-> fl, delim |-> d, key_delim |-> k, char_signed |-> sg] :
        fl \in SUBSET {"KEY_DELIM", "NULL"}, d \in DelimBytes,
        k \in KeyDelimBytes \cup {0}, sg \in BOOLEAN}

InitFramer ==
    \E in \in Streams(MaxInput), c \in FramerConfs :
       /\ ("KEY_DELIM" \in c.flags) <=> (c.key_delim /= 0)
       /\ framer = [pc |-> "read", whole |-> in, in |-> in, nread |-> 0,
                    flags |-> c.flags, delim |-> c.delim,
                    key_delim |-> c.key_delim, char_signed |-> c.char_signed,
                    sbuf |-> <<>>, calls |-> <<>>, skipped |-> <<>>]

\* lines 249-250: the next record is read into sbuf, or getdelim returns -1
GetDelim ==
    /\ framer.pc = "read"
    /\ IF framer.in = <<>>
       THEN framer' = [framer EXCEPT !.pc = "eof"]
       ELSE LET got == getdelim(framer.in, framer.delim)
            IN framer' = [framer EXCEPT
                            !.pc = "frame",
                            !.sbuf = got,
                            !.nread = @ + 1,
                            !.in = SubSeq(framer.in, Len(got) + 1,
                                          Len(framer.in))]
    /\ UNCHANGED <<runVars, dparse>>

\* lines 251-310: the record in sbuf is skipped or handed to produce()
FrameRecord ==
    /\ framer.pc = "frame"
    /\ LET r == FrameBytes(framer.nread, framer.sbuf, framer.delim,
                           framer.key_delim, framer.flags,
                           framer.char_signed)
       IN IF r = NoRec
          THEN framer' = [framer EXCEPT
                            !.pc = "read",
                            !.skipped = Append(@, framer.sbuf)]
          ELSE framer' = [framer EXCEPT
                            !.pc = "read",
                            !.calls = Append(@,
                               ProduceCall(r, framer.sbuf, framer.delim,
                                           framer.key_delim,
                                           framer.char_signed))]
    /\ UNCHANGED <<runVars, dparse>>

\* The framing loop alone, on every byte stream of at most MaxInput bytes.
InitFrame ==
    /\ InitRun
    /\ conf.mode = "P"
    /\ conf.flags = {}
    /\ conf.msg_cnt = 0
    /\ pathcnt = 0
    /\ dparse = NoDparse
    /\ InitFramer

NextFrame == GetDelim \/ FrameRecord

SpecFrame == InitFrame /\ [][NextFrame]_vars

\* ------------------------------------------------ parse_delim, argparse
\* The characters of the delimiter strings tried: backslash, x, n, t, r,
\* the digits 0 and 1, F, minus, and the byte 0xE9.
SpecChars == {92, 120, 110, 116, 114, 48, 49, 70, 45, 233}

HexDigitChars == (48..57) \cup (65..70) \cup (97..102)

\* All strings of at most n characters of SpecChars.
RECURSIVE Strings(_)
Strings(n) ==
    IF n = 0 THEN {<<>>}
    ELSE LET shorter == Strings(n - 1)
         IN shorter \cup {Append(q, b) : q \in {t \in shorter : Len(t) = n - 1},
                                         b \in SpecChars}

\* Every string \xN and \xNN, N a hex digit.
HexSpecs ==
    {<<92, 120, a>> : a \in HexDigitChars}
       \cup {<<92, 120, a, b>> : a \in HexDigitChars, b \in HexDigitChars}

\* The value of a hex digit, -1 for any other character.
HexVal(b) ==
    CASE b \in 48..57 -> b - 48
      [] b \in 65..70 -> b - 55
      [] b \in 97..102 -> b - 87
      [] OTHER -> -1

\* strtoul: the white space it skips
RECURSIVE SkipSpace(_)
SkipSpace(q) ==
    IF q /= <<>> /\ Head(q) \in {9, 10, 11, 12, 13, 32}
    THEN SkipSpace(Tail(q)) ELSE q

\* strtoul, base 16: the leading hex digits, kept to the low 8 bits that
\* line 811 keeps (strings long enough to overflow unsigned long are beyond
\* the lengths tried).
RECURSIVE HexDigits(_, _)
HexDigits(q, acc) ==
    IF q = <<>> \/ HexVal(Head(q)) < 0 THEN acc
    ELSE HexDigits(Tail(q), (acc * 16 + HexVal(Head(q))) % 256)

\* line 811: strtoul(q, NULL, 16) & 0xff, with strtoul's white space, sign
\* and 0x prefix
strtoul_low8(q) ==
    LET q1  == SkipSpace(q)
        neg == q1 /= <<>> /\ Head(q1) = 45
        q2  == IF q1 /= <<>> /\ Head(q1) \in {43, 45} THEN Tail(q1) ELSE q1
        q3  == IF /\ Len(q2) >= 3
                  /\ q2[1] = 48
                  /\ q2[2] \in {120, 88}
                  /\ HexVal(q2[3]) >= 0
               THEN SubSeq(q2, 3, Len(q2)) ELSE q2
        v   == HexDigits(q3, 0)
    IN IF neg THEN (256 - v) % 256 ELSE v

\* line 817, *str: the first char of a C string, the terminating NUL when
\* the string is empty
FirstChar(str, char_signed) ==
    IF str = <<>> THEN 0 ELSE CharToInt(str[1], char_signed)

\* The first byte returned without the & 0xff of line 817.
parse_delim_nomask(str, char_signed) ==
    IF Len(str) >= 2 /\ str[1] = 92 /\ str[2] = 120
    THEN strtoul_low8(SubSeq(str, 3, Len(str)))
    ELSE IF str = <<92, 110>> THEN 10
    ELSE IF str = <<92, 116>> THEN 9
    ELSE FirstChar(str, char_signed)

\* parse_delim(), lines 808-819
parse_delim(str, char_signed) ==
    IF Len(str) >= 2 /\ str[1] = 92 /\ str[2] = 120
    THEN strtoul_low8(SubSeq(str, 3, Len(str)))
    ELSE IF str = <<92, 110>> THEN 10
    ELSE IF str = <<92, 116>> THEN 9
    ELSE (FirstChar(str, char_signed) + 256) % 256

\* argparse, lines 828-829 and 884-890: -D <str> or -K <str> was given;
\* delim defaults to the newline string, -K sets CONF_F_KEY_DELIM.
InitDparse ==
    \E o \in {"D", "K"}, str \in Strings(MaxSpecLen) \cup HexSpecs,
       sg \in BOOLEAN :
       dparse = [pc |-> "args", opt |-> o, optarg |-> str,
                 char_signed |-> sg,
                 delim_str |-> IF o = "D" THEN str ELSE <<10>>,
                 flags |-> IF o = "K" THEN {"KEY_DELIM"} ELSE {},
                 delim |-> 0, key_delim |-> 0]

\* argparse, lines 1026-1030: the producer's delimiters are parsed
ArgparseDelims ==
    /\ dparse.pc = "args"
    /\ dparse' = [dparse EXCEPT
                    !.pc = "done",
                    !.delim = parse_delim(dparse.delim_str,
                                          dparse.char_signed),
                    !.key_delim = IF "KEY_DELIM" \in dparse.flags
                                  THEN parse_delim(dparse.optarg,
                                                   dparse.char_signed)
                                  ELSE @]
    /\ UNCHANGED <<runVars, framer>>

\* The delimiter parsing alone, on every delimiter string tried.
InitDelim ==
    /\ InitRun
    /\ conf.mode = "P"
    /\ conf.flags = {}
    /\ conf.msg_cnt = 0
    /\ pathcnt = 0
    /\ framer = NoFramer
    /\ InitDparse

SpecDelim == InitDelim /\ [][ArgparseDelims]_vars

\* ================================================================= claims
InReceiveLoop == pc \in {"c_loop", "c_batch"}

\* The partitions whose EOF flag is set.
Observed == {p \in DOMAIN part_eof : part_eof[p] = 1}

\* A consumer run with exit-at-EOF and no partition filter, metadata read.
EofRunAll ==
    /\ conf.mode = "C"
    /\ conf.exit_eof /= 0
    /\ conf.partition = PARTITION_UA
    /\ meta.partition_cnt > 0

\* C1: with exit-at-EOF, N partitions and no partition filter the threshold
\* is N; while fewer than N distinct partitions were seen at EOF the receive
\* loop keeps its run flag (unless an interrupt or the count limit cleared
\* it), and the EOF branch clears the flag exactly once, in the step that
\* observes the N-th distinct partition, whatever the order of markers,
\* duplicates and messages.
C1_EofThreshold ==
    EofRunAll =>
        /\ part_eof_thres = meta.partition_cnt
        /\ hist.eofStops <= 1
        /\ (hist.eofStops = 1) <=>
               (Cardinality(Observed) = meta.partition_cnt)
        /\ (/\ InReceiveLoop
            /\ Cardinality(Observed) < meta.partition_cnt
            /\ ~hist.termed
            /\ hist.cntStops = 0) => conf.run = 1

\* C1 witness: every partition of the largest topic was seen at EOF after a
\* duplicate marker and a message, and the EOF branch stopped the loop.
C1_Witness ==
    /\ EofRunAll
    /\ meta.partition_cnt = MaxParts
    /\ hist.eofStops = 1
    /\ hist.dupEof
    /\ stats.rx > 0
    /\ ~hist.termed
    /\ conf.run = 0
    /\ InReceiveLoop

\* What the count limit promises in every state of a consumer run.
C2_Counted ==
    (conf.mode = "C" /\ conf.msg_cnt > 0) =>
        /\ hist.rendered = stats.rx
        /\ hist.msgStores = stats.rx
        /\ stats.rx <= conf.msg_cnt
        /\ hist.cntStops <= 1
        /\ (hist.cntStops = 1) <=> (stats.rx = conf.msg_cnt)
        /\ (hist.cntStops = 1 /\ InReceiveLoop) => conf.run = 0

\* C2: with a message-count limit N > 0 the consumer renders and stores at
\* most N messages, the count branch clears the run flag exactly when the
\* N-th message was rendered and stored, end-of-partition markers never
\* count, and after that no queued message or marker is processed: nothing
\* more is rendered, counted or stored.
C2_CountLimit ==
    /\ []C2_Counted
    /\ [][(conf.mode = "C" /\ hist.cntStops = 1) =>
             /\ stats' = stats
             /\ hist'.rendered = hist.rendered
             /\ cons'.stored = cons.stored
             /\ part_eof' = part_eof]_vars

\* C2 witness: the limit of two messages was reached while an event of the
\* same batch is still queued behind the second message.
C2_Witness ==
    /\ conf.mode = "C"
    /\ conf.msg_cnt = 2
    /\ hist.cntStops = 1
    /\ stats.rx = 2
    /\ ~hist.termed
    /\ pc = "c_batch"
    /\ cons.batch > 0

\* ------------------------------------------------------- producer claims
InProduceLoop == pc \in {"produce_chk", "produce_send", "produce_poll5"}

ProduceReturned == pc \in {"produce_poll0", "post", "file_ret"}

NumFails(q) == Cardinality({i \in DOMAIN q : q[i] = "fail"})

StrictlyIncreasing(q) ==
    \A i, j \in DOMAIN q : i < j => q[i] < q[j]

\* What the send loop keeps true in every state of a producer run.
C3_Once ==
    conf.mode = "P" =>
        /\ stats.tx = Len(sendlog.accepted)
        /\ \A i, j \in DOMAIN sendlog.accepted :
               i /= j => sendlog.accepted[i] /= sendlog.accepted[j]
        /\ ProduceReturned => sendlog.accepted = sendlog.submitted
        /\ (pc = "fatal" /\ hist.lastres = "QUEUE_FULL") => hist.chk = "stop"

\* C3: a send answered with queue-full is polled and retried: the sent
\* counter counts every accepted record exactly once, produce() returns only
\* with its record accepted, queue-full alone never ends the process, and a
\* record in the send loop eventually is accepted unless the process ends
\* fatally on an interrupt or on another send error.
C3_BackpressureRetry ==
    /\ []C3_Once
    /\ InProduceLoop ~>
          \/ pc = "produce_poll0"
          \/ (pc = "fatal" /\ (hist.chk = "stop" \/ hist.lastres = "other"))

\* C3 witness: a record was accepted after a queue-full retry, no interrupt.
C3_Witness ==
    /\ pc = "produce_poll0"
    /\ hist.retrying
    /\ ~hist.termed
    /\ sendlog.accepted = sendlog.submitted

\* C4: the records are accepted in the order they were read: the accepted
\* records are a prefix of the records handed to produce(), which are in
\* input order, and at most one record is handed over and not yet accepted,
\* so record i+1 is never submitted before record i was accepted.
C4_InOrder ==
    conf.mode = "P" =>
        /\ StrictlyIncreasing(sendlog.submitted)
        /\ Len(sendlog.accepted) <= Len(sendlog.submitted)
        /\ Len(sendlog.submitted) <= Len(sendlog.accepted) + 1
        /\ sendlog.accepted =
              SubSeq(sendlog.submitted, 1, Len(sendlog.accepted))
        /\ ~FileMode =>
              \A i \in DOMAIN sendlog.submitted :
                 sendlog.submitted[i] <= input.nread

\* C4 witness: a stream record is accepted after queue-full retries, behind
\* two records accepted before it.
C4_Witness ==
    /\ conf.mode = "P"
    /\ ~FileMode
    /\ pc = "produce_poll0"
    /\ hist.retrying
    /\ Len(sendlog.accepted) = 3

\* C5: a send that fails with an error other than queue-full ends the
\* process at once with exit code 1: the record is not retried or accepted
\* and no later record is read or submitted.
C5_FailFast ==
    hist.lastres = "other" =>
        /\ pc = "fatal"
        /\ exitstatus = 1
        /\ Len(sendlog.submitted) = Len(sendlog.accepted) + 1
        /\ sendlog.submitted[Len(sendlog.submitted)] = rec.idx
        /\ IF FileMode THEN files.i + 1 = rec.idx
                       ELSE input.nread = rec.idx

\* C5 witness: the second record's send failed with another error.
C5_Witness ==
    /\ hist.lastres = "other"
    /\ pc = "fatal"
    /\ Len(sendlog.accepted) >= 1

\* C6: when the send loop sees the run flag cleared, the process ends with
\* exit code 1 and the record is not submitted again; a send is attempted
\* only after the check just before it saw the flag set.
C6_CancelDuringRetry ==
    /\ hist.chk = "stop" =>
          /\ pc = "fatal"
          /\ exitstatus = 1
          /\ Len(sendlog.submitted) = Len(sendlog.accepted) + 1
    /\ pc = "produce_send" => hist.chk = "run"

\* C6 witness: the interrupt came while a record was retried after
\* queue-full, and the next check ended the process.
C6_Witness ==
    /\ hist.chk = "stop"
    /\ hist.retrying
    /\ hist.termed
    /\ pc = "fatal"

\* What holds of delivery failures in every state of a producer run.
C7_Counted ==
    conf.mode = "P" =>
        /\ stats.tx_err_dr + NumFails(outq.dr) = hist.brokerFails
        /\ (pc \in {"exit", "fatal"} /\ stats.tx_err_dr > 0) => exitstatus = 1

\* C7: every failed delivery report served increments the delivery-failure
\* counter and leaves the process running, and a producer run that saw a
\* delivery failure ends with exit code 1.
C7_DeliveryFailure ==
    /\ []C7_Counted
    /\ [][stats'.tx_err_dr /= stats.tx_err_dr =>
             /\ stats'.tx_err_dr =
                   stats.tx_err_dr + NumFails(outq.dr)
             /\ exitstatus' = -1
             /\ pc' \notin {"exit", "fatal"}]_vars

\* C7 witness: a run without queue-full and without interrupt that saw a
\* delivery failure, accepted further records and ended with exit code 1.
C7_Witness ==
    /\ conf.mode = "P"
    /\ pc = "exit"
    /\ exitstatus = 1
    /\ stats.tx_err_dr = 1
    /\ stats.tx_err_q = 0
    /\ stats.tx_delivered >= 1
    /\ ~hist.termed

\* A whole-file run that came to its end.
FileRunEnded == conf.mode = "P" /\ FileMode /\ pc = "exit"

\* The files that failed to be read (open, stat or map).
FilesFailed == pathcnt - files.good

\* C8 as stated: in whole-file mode the exit code is 1 whenever at least
\* one file failed to be read, the partial case included, and it is 0 only
\* when no file failed and no delivery failed.
C8_Original ==
    FileRunEnded =>
        /\ FilesFailed > 0 => exitstatus = 1
        /\ exitstatus = 0 => (FilesFailed = 0 /\ stats.tx_err_dr = 0)

\* C8 as amended: in whole-file mode the exit code is 1 whenever none of
\* the files could be read, and it is 0 only when at least one file did not
\* fail and no delivery failed; files that failed beside a file that did
\* not are only reported.
C8_FileExitcode ==
    FileRunEnded =>
        /\ files.i = pathcnt
        /\ files.good = 0 => exitstatus = 1
        /\ exitstatus = 0 => (files.good > 0 /\ stats.tx_err_dr = 0)

\* C8 witness: one file failed, another was sent and delivered, exit code 0.
C8_Witness ==
    /\ FileRunEnded
    /\ FilesFailed > 0
    /\ files.good > 0
    /\ stats.tx_delivered > 0
    /\ exitstatus = 0

StreamSend ==
    /\ conf.mode = "P"
    /\ ~FileMode
    /\ pc \in {"produce_chk", "produce_send", "produce_poll5",
               "produce_poll0", "post"}

\* C10: at the boundary, a stream record of 1024 bytes with tee off is sent
\* with the copy flag, one of 1025 bytes with tee off and no key split with
\* the ownership-transfer flag, any record with tee on with the copy flag,
\* and every send carries exactly one of the two flags.
C10_OwnershipBoundary ==
    /\ (conf.mode = "P" /\ (InProduceLoop \/ ProduceReturned)) =>
          Cardinality(rec.msgflags \cap {"COPY", "FREE"}) = 1
    /\ StreamSend =>
          /\ "TEE" \in conf.flags => rec.msgflags = {"COPY"}
          /\ (rec.len = 1024 /\ "TEE" \notin conf.flags) =>
                rec.msgflags = {"COPY"}
          /\ (rec.len = 1025 /\ "TEE" \notin conf.flags
                /\ rec.buf = "sbuf") => rec.msgflags = {"FREE"}

\* C10 witness: a record of 1025 bytes, tee off, no key split, is sent by
\* ownership transfer.
C10_Witness ==
    /\ StreamSend
    /\ pc = "produce_send"
    /\ rec.len = 1025
    /\ rec.buf = "sbuf"
    /\ "TEE" \notin conf.flags
    /\ rec.msgflags = {"FREE"}

\* A stream record goes to produce() whole: no key split, tee off.
PlainSend ==
    /\ StreamSend
    /\ rec.buf = "sbuf"
    /\ "TEE" \notin conf.flags

\* C11 as stated: a stream record of 1024 bytes or more, tee off and no key
\* split, is handed over by ownership transfer, and every record of fewer
\* than 1024 bytes is copied.
C11_Original ==
    /\ (PlainSend /\ rec.len >= 1024) => rec.msgflags = {"FREE"}
    /\ (StreamSend /\ rec.len < 1024) => rec.msgflags = {"COPY"}

\* C11 as amended: a stream record of more than 1024 bytes, tee off and no
\* key split, is handed over by ownership transfer, and every record of
\* 1024 bytes or fewer is copied.
C11_OwnershipThreshold ==
    /\ (PlainSend /\ rec.len > CopyThreshold) => rec.msgflags = {"FREE"}
    /\ (StreamSend /\ rec.len <= CopyThreshold) => rec.msgflags = {"COPY"}

\* C11 witness: a record of exactly 1024 bytes, tee off and no key split,
\* is sent with the copy flag.
C11_Witness ==
    /\ PlainSend
    /\ pc = "produce_send"
    /\ rec.len = CopyThreshold
    /\ rec.msgflags = {"COPY"}

\* A stream record in which the key delimiter was found.
KeySplit == StreamSend /\ rec.buf \in {"interior", "null"}

\* C12: a record in which the key delimiter was found is sent with the copy
\* flag and never with the ownership-transfer flag, whatever its length and
\* the tee setting; a record in which the configured key delimiter does not
\* occur has no key and is transferred when it is long enough.
C12_KeySplitCopied ==
    /\ KeySplit => ("KEY_DELIM" \in conf.flags /\ rec.msgflags = {"COPY"})
    /\ (PlainSend /\ "KEY_DELIM" \in conf.flags) =>
          /\ rec.key = "null"
          /\ rec.key_len = 0
          /\ rec.len > CopyThreshold => rec.msgflags = {"FREE"}

\* C12 witness: a value of more than 1024 bytes behind a key delimiter, tee
\* off, is sent with the copy flag.
C12_Witness ==
    /\ KeySplit
    /\ pc = "produce_send"
    /\ rec.len > CopyThreshold
    /\ "TEE" \notin conf.flags
    /\ rec.msgflags = {"COPY"}

\* ------------------------------------------------------- framing claims
\* The produce() calls the framing loop has made.
Calls == {framer.calls[i] : i \in DOMAIN framer.calls}

\* The record of a call ended with the record delimiter.
Terminated(c) == c.sbuf[c.orig_len] = framer.delim

\* The record of a call as line 262 left it.
Trimmed(c) == SubSeq(c.sbuf, 1, c.shaved_len)

\* C13 as stated: for every record delimiter byte, the values 128..255 read
\* through a signed char included, a record terminated by the delimiter is
\* submitted without it: the payload (with a key split: key, key delimiter
\* and value together) is one byte shorter than what was read.
C13_Original ==
    framer.pc /= "off" =>
        \A c \in Calls :
           Terminated(c) =>
              IF c.t = 0
              THEN /\ c.len = c.orig_len - 1
                   /\ c.buf = Ptr(SubSeq(c.sbuf, 1, c.orig_len - 1))
              ELSE c.key_len + 1 + c.len = c.orig_len - 1

\* The bytes of a sequence.
Range(q) == {q[i] : i \in DOMAIN q}

\* C15: with a key delimiter K configured a record is split at the first K
\* only: the key is the bytes before it, the value all bytes after it, later
\* K included, and key length + value length + 1 is the trimmed record
\* length; a record without K, or any record when no key delimiter is
\* configured, is sent with the key absent and the whole record as value.
C15_KeySplit ==
    framer.pc /= "off" =>
        \A c \in Calls :
           LET T == Trimmed(c)
               K == framer.key_delim
           IN IF "KEY_DELIM" \in framer.flags /\ K \in Range(T)
              THEN \E k \in 1..Len(T) :
                      /\ T[k] = K
                      /\ \A j \in 1..(k - 1) : T[j] /= K
                      /\ c.key_len = k - 1
                      /\ c.len = Len(T) - k
                      /\ c.key_len + c.len + 1 = Len(T)
                      /\ c.key.bytes = IF c.key.null THEN <<>>
                                       ELSE SubSeq(T, 1, k - 1)
                      /\ c.buf.bytes = IF c.buf.null THEN <<>>
                                       ELSE SubSeq(T, k + 1, Len(T))
                      /\ c.key.null => c.key_len = 0
                      /\ c.buf.null => c.len = 0
              ELSE /\ c.key = NullPtr
                   /\ c.key_len = 0
                   /\ c.buf = Ptr(T)
                   /\ c.len = Len(T)

\* C15 witness: a record with two key delimiters was split at the first,
\* the second is in the value, and the key is not empty.
C15_Witness ==
    /\ framer.pc = "read"
    /\ \E c \in Calls :
          /\ c.t > 1
          /\ c.key_len = c.t - 1
          /\ ~c.buf.null
          /\ framer.key_delim \in Range(c.buf.bytes)

\* C16: after a key split, with the encode-nulls flag a zero-length key is
\* passed to produce() as NULL and a zero-length value as NULL; without the
\* flag the same halves are passed as non-NULL pointers with length 0;
\* halves that are not empty are never NULL.
C16_NullHalves ==
    framer.pc /= "off" =>
        \A c \in Calls :
           c.t > 0 =>
              /\ c.key.null <=> ("NULL" \in framer.flags /\ c.key_len = 0)
              /\ c.buf.null <=> ("NULL" \in framer.flags /\ c.len = 0)
              /\ Len(c.key.bytes) = c.key_len
              /\ Len(c.buf.bytes) = c.len

\* C16 witness: the encode-nulls flag is set, one record was sent with a
\* NULL key and a value, another with a key and a NULL value.
C16_Witness ==
    /\ "NULL" \in framer.flags
    /\ \E c \in Calls : c.t > 0 /\ c.key.null /\ ~c.buf.null /\ c.len > 0
    /\ \E c \in Calls : c.t > 0 /\ ~c.key.null /\ c.buf.null /\ c.key_len > 0

\* The payloads of the calls, each followed by the record delimiter where
\* the record read ended with one.
RECURSIVE JoinTerminated(_)
JoinTerminated(calls) ==
    IF calls = <<>> THEN <<>>
    ELSE LET c == Head(calls)
         IN c.buf.bytes
               \o (IF Terminated(c) THEN <<framer.delim>> ELSE <<>>)
               \o JoinTerminated(Tail(calls))

\* The payloads of the calls, each followed by the record delimiter where
\* one was trimmed from it.
RECURSIVE JoinTrimmed(_)
JoinTrimmed(calls) ==
    IF calls = <<>> THEN <<>>
    ELSE LET c == Head(calls)
         IN c.buf.bytes
               \o (IF c.len < c.orig_len THEN <<framer.delim>> ELSE <<>>)
               \o JoinTrimmed(Tail(calls))

\* A byte stream cut behind every record delimiter.
RECURSIVE Records(_, _)
Records(in, delim) ==
    IF in = <<>> THEN <<>>
    ELSE LET got == getdelim(in, delim)
         IN <<got>> \o Records(SubSeq(in, Len(got) + 1, Len(in)), delim)

RECURSIVE Concat(_)
Concat(qs) == IF qs = <<>> THEN <<>> ELSE Head(qs) \o Concat(Tail(qs))

\* The framing loop read its stream to the end, no key delimiter configured.
PlainStreamDone == framer.pc = "eof" /\ "KEY_DELIM" \notin framer.flags

\* C17 as stated: without a key delimiter, the framed records, each followed
\* by its original delimiter where it had one, concatenate to the input byte
\* for byte, consecutive delimiters and a last record without delimiter
\* included.
C17_Original ==
    PlainStreamDone => JoinTerminated(framer.calls) = framer.whole

\* The records the loop kept: all but those it skipped as empty.
Kept(r) == r \notin Range(framer.skipped)

\* C17 as amended: without a key delimiter, the framed records, each
\* followed by the delimiter that was trimmed from it, concatenate to the
\* input byte for byte except that the records skipped as empty, each a
\* delimiter alone, are missing; an input without such records is
\* reproduced whole.
C17_RoundTrip ==
    PlainStreamDone =>
        /\ \A i \in DOMAIN framer.skipped :
              framer.skipped[i] = <<framer.delim>>
        /\ JoinTrimmed(framer.calls) =
              Concat(SelectSeq(Records(framer.whole, framer.delim), Kept))
        /\ framer.skipped = <<>> =>
              JoinTrimmed(framer.calls) = framer.whole

\* C17 witness: a stream of a terminated record, an empty record that was
\* skipped and a last record without delimiter was framed to the end.
C17_Witness ==
    /\ PlainStreamDone
    /\ Len(framer.skipped) = 1
    /\ Len(framer.calls) = 2
    /\ framer.calls[1].len < framer.calls[1].orig_len
    /\ framer.calls[2].len = framer.calls[2].orig_len
    /\ ~Terminated(framer.calls[2])

\* The stream records read so far that were not empty once trimmed.
NonEmptyRead == (1..input.nread) \ input.zero

\* C14: in stream mode a record that is empty once the delimiter is trimmed
\* never reaches the send loop: it is not submitted, the sent counter and
\* the tee output count non-empty records only, and the message-count limit
\* stops the loop only when that many records were sent.
C14_EmptySkipped ==
    (conf.mode = "P" /\ ~FileMode) =>
        /\ input.zero \cap Range(sendlog.submitted) = {}
        /\ rec.idx \notin input.zero
        /\ StreamSend => rec.orig_len > 0
        /\ stats.tx <= Cardinality(NonEmptyRead)
        /\ hist.tee <= Cardinality(NonEmptyRead)
        /\ (pc = "read" /\ conf.run = 0 /\ ~hist.termed) =>
              stats.tx = conf.msg_cnt

\* C14 witness: with tee on and a limit of one message, an empty record was
\* read first and skipped, the next record was sent and written to the tee,
\* and only then the limit stopped the loop.
C14_Witness ==
    /\ conf.mode = "P"
    /\ ~FileMode
    /\ pc = "read"
    /\ 1 \in input.zero
    /\ input.nread = 2
    /\ conf.msg_cnt = 1
    /\ stats.tx = 1
    /\ "TEE" \in conf.flags
    /\ hist.tee = 1
    /\ conf.run = 0
    /\ ~hist.termed

\* ----------------------------------------------------- delimiter claims
\* The byte parse_delim returned for the string given with -D or -K.
Parsed == IF dparse.opt = "D" THEN dparse.delim ELSE dparse.key_delim

ParseDone == dparse.pc = "done"

\* The string is \xN or \xNN, N a hex digit.
IsHexSpec(str) ==
    /\ Len(str) \in {3, 4}
    /\ str[1] = 92
    /\ str[2] = 120
    /\ \A i \in 3..Len(str) : str[i] \in HexDigitChars

\* The number a string of one or two hex digits denotes.
HexNumber(q) ==
    IF Len(q) = 1 THEN HexVal(q[1]) ELSE 16 * HexVal(q[1]) + HexVal(q[2])

\* What C18 says of the strings \xNN, \n and \t, and of the result's range.
C18_Escapes ==
    ParseDone =>
        /\ Parsed \in 0..255
        /\ IsHexSpec(dparse.optarg) =>
              Parsed = HexNumber(SubSeq(dparse.optarg, 3, Len(dparse.optarg)))
        /\ dparse.optarg = <<92, 110>> => Parsed = 10
        /\ dparse.optarg = <<92, 116>> => Parsed = 9

HexPrefixed(str) == Len(str) >= 2 /\ str[1] = 92 /\ str[2] = 120

C19_Original ==
    ~(ParseDone /\ dparse.optarg = <<>> /\ Parsed \in 0..255)

\* C20 as stated: the producer's delimiter option takes \r for the
\* carriage return 0x0D, as it takes \n for 0x0A and \t for 0x09.
C20_Original ==
    (ParseDone /\ dparse.opt = "D") =>
        /\ dparse.optarg = <<92, 114>> => dparse.delim = 13
        /\ dparse.optarg = <<92, 110>> => dparse.delim = 10
        /\ dparse.optarg = <<92, 116>> => dparse.delim = 9

\* ------------------------------------------------------- consumer claims
\* A consumer run with exit-at-EOF whose EOF state array was allocated.
EofRun ==
    /\ conf.mode = "C"
    /\ conf.exit_eof /= 0
    /\ part_eof /= NullArray

\* What the EOF counters promise in every state.
C21_Counted ==
    EofRun =>
        /\ part_eof_cnt = Cardinality(Observed)
        /\ part_eof_cnt <= meta.partition_cnt
        /\ part_eof_thres <= meta.partition_cnt

\* C21: in every state of a consumer run with exit-at-EOF the observed-count
\* equals the number of partitions whose EOF flag is set; it never
\* decreases, a repeated marker for an observed partition leaves it as it
\* is, it never exceeds the partition count, and the threshold is at most
\* the partition count.
C21_ObservedCount ==
    /\ []C21_Counted
    /\ [][/\ part_eof_cnt' >= part_eof_cnt
          /\ Observed \subseteq {p \in DOMAIN part_eof' : part_eof'[p] = 1}
          /\ (/\ EofRun
              /\ pc = "c_batch"
              /\ cons.batch > 0
              /\ Head(cons.rkq).type = "eof"
              /\ Head(cons.rkq).partition \in Observed)
                 => part_eof_cnt' = part_eof_cnt]_vars

\* C21 witness: on a topic of two partitions one partition is observed, a
\* second marker for it was handled, and the count is still one.
C21_Witness ==
    /\ EofRun
    /\ conf.partition = PARTITION_UA
    /\ meta.partition_cnt = 2
    /\ hist.dupEof
    /\ part_eof_cnt = 1
    /\ Cardinality(Observed) = 1
    /\ InReceiveLoop

\* A step of consume_cb (the only step that takes an event off the batch).
CbStep == pc = "c_batch" /\ cons.batch > 0 /\ cons'.batch = cons.batch - 1

\* consume_cb is handed a marker for a partition that is already Observed.
DupStep ==
    /\ EofRun
    /\ CbStep
    /\ Head(cons.rkq).type = "eof"
    /\ Head(cons.rkq).partition \in Observed

\* The coordinator's state: flags, observed-count, run flag.
CoordinatorKept ==
    /\ part_eof' = part_eof
    /\ part_eof_cnt' = part_eof_cnt
    /\ conf'.run = conf.run

\* C22 as stated: a duplicate end-of-partition marker for an Observed
\* partition is a no-op: it changes no coordinator state and issues no
\* broker client call, neither stop-consuming nor offset-store.
C22_Original ==
    /\ [][DupStep => (CoordinatorKept /\ cons'.stops = cons.stops)]_vars
    /\ []~hist.dupStore

\* C22 amended: a duplicate marker changes no coordinator state and issues
\* no stop-consuming; handled while the run flag is set it still has the
\* marker's resumable offset stored, and with the run flag cleared it is
\* dropped without a call.
C22_Duplicate ==
    [][DupStep =>
         /\ CoordinatorKept
         /\ cons'.stops = cons.stops
         /\ IF conf.run /= 0
            THEN /\ hist'.dupStore
                 /\ cons'.stored[Head(cons.rkq).partition] =
                        EofOffset(Head(cons.rkq).offset)
            ELSE /\ hist'.dupStore = hist.dupStore
                 /\ cons'.stored = cons.stored]_vars

\* C22 witness: a duplicate marker was handled with the run flag set before
\* any message was rendered, and its offset was stored.
C22_Witness ==
    /\ EofRun
    /\ hist.dupEof
    /\ hist.dupStore
    /\ stats.rx = 0
    /\ pc = "c_batch"
    /\ conf.run = 1

\* consume_cb handles a marker: the run flag is set when it is called.
EofStep ==
    /\ conf.mode = "C"
    /\ CbStep
    /\ conf.run /= 0
    /\ Head(cons.rkq).type = "eof"

\* C23: at an end-of-partition marker of offset o the offset handed to the
\* offset-store is o-1 when o > 0 and 0 when o = 0; when messages of the
\* partition were consumed in this run it is the offset stored for the last
\* of them, and the stored offset of a partition never moves backwards.
C23_EofStore ==
    /\ [][EofStep =>
            LET p == Head(cons.rkq).partition
                o == Head(cons.rkq).offset
            IN /\ cons'.stored[p] = IF o > 0 THEN o - 1 ELSE 0
               /\ cons.last[p] >= 0 =>
                     /\ cons.stored[p] = cons.last[p]
                     /\ cons'.stored[p] = cons.last[p]]_vars
    /\ [][\A p \in DOMAIN cons.stored :
             cons'.stored[p] >= cons.stored[p]]_vars

\* C23 witness: a message of offset MaxOffset - 1 was consumed from
\* partition 0, then the partition's EOF transition at offset MaxOffset
\* stored the offset of that message.
C23_Witness ==
    /\ EofRun
    /\ pc = "c_batch"
    /\ part_eof[0] = 1
    /\ cons.stops[0] = 1
    /\ cons.next[0] = MaxOffset
    /\ cons.last[0] = MaxOffset - 1
    /\ cons.stored[0] = MaxOffset - 1
    /\ part_eof_cnt = 1

\* A consumer run with exit-at-EOF and one requested partition.
EofRunOne == EofRun /\ conf.partition /= PARTITION_UA

\* C24: with exit-at-EOF and an explicit single partition the threshold is
\* 1 whatever the topic's partition count, only the requested partition is
\* started, and its first end-of-partition marker stops the receive loop.
C24_SinglePartition ==
    EofRunOne =>
        /\ part_eof_thres = 1
        /\ cons.started \subseteq {conf.partition}
        /\ InReceiveLoop => cons.started = {conf.partition}
        /\ Observed \subseteq {conf.partition}
        /\ part_eof_cnt <= 1
        /\ hist.eofStops = part_eof_cnt
        /\ ~hist.dupEof
        /\ (InReceiveLoop /\ part_eof_cnt = 1) => conf.run = 0

\* C24 witness: partition 1 of a topic of two partitions was requested, and
\* its first marker, not an interrupt or the count limit, stopped the loop.
C24_Witness ==
    /\ EofRunOne
    /\ meta.partition_cnt = 2
    /\ conf.partition = 1
    /\ Observed = {1}
    /\ hist.eofStops = 1
    /\ hist.cntStops = 0
    /\ ~hist.termed
    /\ conf.run = 0
    /\ InReceiveLoop

\* The receive loop runs with the run flag cleared.
Cancelled == conf.mode = "C" /\ InReceiveLoop /\ conf.run = 0

\* What a step of a cancelled receive loop leaves alone.
C25_Quiet ==
    [][Cancelled =>
         /\ stats' = stats
         /\ hist'.rendered = hist.rendered
         /\ hist'.msgStores = hist.msgStores
         /\ cons'.stored = cons.stored
         /\ cons'.stops = cons.stops
         /\ part_eof' = part_eof
         /\ part_eof_cnt' = part_eof_cnt
         /\ exitstatus' = exitstatus
         /\ hist'.dupStore = hist.dupStore
         /\ pc' \in {"c_loop", "c_batch"} => conf'.run = 0
         /\ pc = "c_loop" => pc' \in {"c_loop", "c_stop"}
         /\ pc = "c_batch" => pc' \in {"c_batch", "c_loop"}]_vars

\* A cancelled receive loop reaches its shutdown.
C25_Exits == Cancelled ~> (pc = "c_stop")

C26_Original ==
    (conf.mode = "P" /\ conf.msg_cnt > 0) =>
        Len(sendlog.accepted) <= conf.msg_cnt

\* The list positions of the files of one kind among those handed to
\* produce_file so far, in list order.
FilesOf(kinds) ==
    LET F[n \in 0..Len(files.seen)] ==
            IF n = 0 THEN <<>>
            ELSE IF files.seen[n] \in kinds THEN Append(F[n - 1], n)
            ELSE F[n - 1]
    IN F[Len(files.seen)]

\* produce_file is inside its produce() call, or the process died in it.
InFileSend ==
    pc \in {"produce_chk", "produce_send", "produce_poll5", "produce_poll0",
            "file_ret", "fatal"}

\* C27: in whole-file mode each readable non-empty file makes exactly one
\* send, with the copy flag and no key; an empty file makes no send and is
\* not counted as a failure; a file that fails to open, stat or map is
\* skipped, and the files after it are still processed, in list order.
C27_WholeFiles ==
    (conf.mode = "P" /\ FileMode) =>
        /\ sendlog.submitted = FilesOf({"ok"})
        /\ \/ sendlog.accepted = sendlog.submitted
           \/ /\ InFileSend
              /\ Append(sendlog.accepted, rec.idx) = sendlog.submitted
        /\ InFileSend =>
              /\ rec.idx = Len(files.seen)
              /\ files.i = Len(files.seen) - 1
              /\ rec.msgflags = {"COPY"}
              /\ rec.key = "null"
              /\ rec.key_len = 0
              /\ rec.buf = "mmap"
        /\ ~InFileSend => files.i = Len(files.seen)
        /\ files.good =
              Len(FilesOf({"ok", "empty"})) - (IF InFileSend THEN 1 ELSE 0)
        /\ files.i - files.good =
              Len(FilesOf({"open_fail", "stat_fail", "mmap_fail"}))
        /\ pc \in {"wait", "waitloop", "finish", "exit"} =>
              Len(files.seen) = pathcnt

\* C27 witness: the first of two files failed to open, the second was sent
\* as one record, and the file loop is over.
C27_Witness ==
    /\ conf.mode = "P"
    /\ FileMode
    /\ pathcnt = 2
    /\ files.seen = <<"open_fail", "ok">>
    /\ sendlog.accepted = <<2>>
    /\ files.good = 1
    /\ pc = "wait"

\* C28: once a record was sent with the ownership-transfer flag, the framer
\* does not touch that buffer again: it is not read for tee output, not used
\* by the next read (sbuf is NULL, so getdelim allocates) and not freed at
\* the end of the run; a buffer sent with the copy flag stays owned by the
\* framer, which frees the buffer it still owns exactly once.
C28_Ownership ==
    (conf.mode = "P" /\ ~FileMode) =>
        /\ ~hist.stale
        /\ sbuf = "given" =>
              /\ pc \in {"produce_poll0", "post"}
              /\ rec.msgflags = {"FREE"}
              /\ rec.buf = "sbuf"
              /\ "TEE" \notin conf.flags
        /\ (pc \in {"produce_poll0", "post"} /\ "FREE" \in rec.msgflags) =>
              sbuf = "given"
        /\ (pc \in {"produce_poll0", "post"} /\ "COPY" \in rec.msgflags) =>
              sbuf = "alloc"
        /\ hist.freed = IF pc = "exit" /\ sbuf = "alloc" THEN 1 ELSE 0

\* C28 witness: the only record of the input was sent with the
\* ownership-transfer flag, the run ended normally, and nothing was freed.
C28_Witness ==
    /\ conf.mode = "P"
    /\ ~FileMode
    /\ pc = "exit"
    /\ input.nread = 1
    /\ sendlog.accepted = <<1>>
    /\ sbuf = "null"
    /\ hist.freed = 0
    /\ ~hist.stale

\* ------------------------------------------------ consumer claims, shutdown
\* The shutdown loop of consumer_run is over.
ShutdownDone ==
    conf.mode = "C" /\ pc \in {"c_wait", "c_waitloop", "c_finish", "exit"}

\* C29 as stated: over a whole consumer run stop-consuming is issued exactly
\* once for every partition that was started, at its EOF transition or else
\* in the shutdown loop; a partition stopped at EOF is not stopped again at
\* shutdown, and a partition that was never started is never stopped.
C29_Original ==
    /\ InReceiveLoop =>
          \A p \in Parts :
             cons.stops[p] = IF p \in Observed THEN 1 ELSE 0
    /\ ShutdownDone =>
          \A p \in Parts :
             cons.stops[p] = IF p \in cons.started THEN 1 ELSE 0

\* Renders and message stores go together in every state.
C30_Paired ==
    conf.mode = "C" =>
        /\ hist.msgStores = hist.rendered
        /\ hist.rendered = stats.rx
        /\ \A p \in DOMAIN cons.last :
              cons.last[p] >= 0 => cons.stored[p] >= cons.last[p]

\* What consume_cb does with a message and with an error event.
C30_Steps ==
    [][(conf.mode = "C" /\ CbStep /\ Head(cons.rkq).type /= "eof") =>
         LET m == Head(cons.rkq)
         IN IF conf.run = 0
            THEN /\ hist'.rendered = hist.rendered
                 /\ hist'.msgStores = hist.msgStores
                 /\ cons'.stored = cons.stored
                 /\ cons'.last = cons.last
                 /\ exitstatus' = exitstatus
            ELSE IF m.type = "msg"
            THEN /\ hist'.rendered = hist.rendered + 1
                 /\ hist'.msgStores = hist.msgStores + 1
                 /\ cons'.stored =
                        [cons.stored EXCEPT ![m.partition] = m.offset]
                 /\ cons'.last[m.partition] = m.offset
                 /\ exitstatus' = exitstatus
            ELSE /\ exitstatus' = 1
                 /\ hist'.rendered = hist.rendered
                 /\ hist'.msgStores = hist.msgStores
                 /\ cons'.stored = cons.stored]_vars

\* C30: the offset of every message the consumer renders is stored exactly
\* once, in the step that rendered it; a message dropped because the run
\* flag is cleared is neither rendered nor stored; a consume error other
\* than end-of-partition ends the process with exit code 1 and stores no
\* offset.
C30_StoreAfterRender == []C30_Paired /\ C30_Steps

\* C30 witness: the message of offset 0 of partition 0 was rendered and
\* stored, then an error event ended the run with exit code 1 and the
\* stored offset as it was.
C30_Witness ==
    /\ conf.mode = "C"
    /\ pc = "fatal"
    /\ exitstatus = 1
    /\ cons.started /= {}
    /\ stats.rx = 1
    /\ hist.rendered = 1
    /\ hist.msgStores = 1
    /\ cons.last[0] = 0
    /\ cons.stored[0] = 0

\* ------------------------------------------- claims about the final wait
\* C31 as stated: a producer run that ends with exit code 0 has had every
\* record the broker client accepted reported as delivered before the exit
\* (delivered counter = sent counter, nothing outstanding), also when an
\* interrupt arrived during the read loop or during the final wait.
C31_Original ==
    (conf.mode = "P" /\ pc = "exit" /\ exitstatus = 0) =>
        /\ stats.tx_delivered = stats.tx
        /\ OutqLen = 0

\* C32 as stated: a cancellation request is never lost: once the interrupt
\* handler has cleared the run flag no step of a producer or consumer run
\* sets it again, so every loop that remains sees the flag cleared.
C32_Original ==
    [][(hist.termed /\ conf.run = 0) => conf'.run = 0]_vars

====
